---- MODULE Spec2Model ----
(***************************************************************************)
(* org-kubectl: the ancestry-resolution phase of main.go.                  *)
(*                                                                         *)
(* main loads the ancestor cache, calls findChildProjects, which lists the *)
(* projects and, for each one, either tests the cached chain inline or     *)
(* spawns an errgroup goroutine that queries the remote ancestry, appends  *)
(* matches to filteredProjects and writes the chain into the cache, all    *)
(* under one sync.Mutex.  Every statement that touches the mutex, the      *)
(* cache or the accumulator is one step of the model.                      *)
(***************************************************************************)
EXTENDS Integers, Sequences, FiniteSets, TLC

\* ------------------------------------------------------------------ bounds
\* Longest ancestor chain the remote or the cache file holds.
MaxChainLen == 2

\* ------------------------------------------------------------- value sets
\* The project ids of the inventory and the resource ids of the hierarchy.
Projects == {"a", "b"}
AncestorIds == {"org1", "org2"}

SeqsUpTo(S, n) == UNION {[1..m -> S] : m \in 0..n}
Chains == SeqsUpTo(AncestorIds, MaxChainLen)
Range(s) == {s[n] : n \in DOMAIN s}

\* Go maps from project id to chain: functions on a subset of Projects.
EmptyMap == [x \in {} |-> <<>>]
MapSet(m, key, val) == [x \in (DOMAIN m) \cup {key} |-> IF x = key THEN val ELSE m[x]]

\* Project lists without repetition (a project id is unique in the inventory).
DistinctLists == {s \in SeqsUpTo(Projects, Cardinality(Projects)) :
                    \A x, y \in DOMAIN s : x # y => s[x] # s[y]}

\* The cache file.  kind: "missing" (os.Open fails), "syntax" (not a JSON
\* value), "json" (a JSON object).  A member of the object is an array of
\* strings or a value of another JSON type (a number).
JsonArray(c) == [t |-> "array", v |-> c]
JsonNumber == [t |-> "number", v |-> <<>>]
JsonValues == {JsonArray(c) : c \in Chains} \cup {JsonNumber}
JsonObjects == UNION {[D -> JsonValues] : D \in SUBSET Projects}
Files == {[kind |-> "missing", obj |-> EmptyMap], [kind |-> "syntax", obj |-> EmptyMap]}
            \cup {[kind |-> "json", obj |-> o] : o \in JsonObjects}

VARIABLES
    file,             \* content of the cache file at cachePath
    target,           \* os.Args[1], parentResourceID
    pc,               \* position of main / findChildProjects
    cache,            \* ancestorCache
    loaded,           \* ancestorCache as openCache returned it
    loadErr,          \* the error openCache returned (discarded by main)
    projects,         \* result of listProjects
    i,                \* index of the range loop over projects
    ancestors,        \* main's local: ancestors, ok := ancestorCache[p]
    ok,
    j,                \* index of the inline loop over ancestors
    mu,               \* holder of the mutex: "free", "main" or a project id
    filteredProjects, \* the accumulator
    grpErr,           \* errgroup: has the first error been recorded
    ctxDone,          \* the errgroup's context is cancelled
    tpc,              \* position of the goroutine spawned for each project
    resp,             \* resp.Ancestor of each goroutine whose query succeeded
    k,                \* each goroutine's index into resp.Ancestor
    tanc,             \* each goroutine's local slice ancestors
    queried,          \* number of remote ancestry queries sent per project
    ret,              \* what findChildProjects returned
    exitCode,         \* exit status of the process, -1 while running
    listAcc,          \* listProjects' local slice projects, filled page by page
    loads,            \* number of calls of openCache
    saves,            \* number of calls of saveCache
    saveErr,          \* the error saveCache returned (discarded by main)
    visited,          \* the projects the cluster loop of main has gone through
    errlog,           \* the messages written with glog.Errorf
    listErr,          \* listProjects returned an error
    call,             \* which call of findChildProjects is running
    firstRet          \* what the first call of findChildProjects returned

vars == <<file, target, pc, cache, loaded, loadErr, projects, i, ancestors, ok, j,
          mu, filteredProjects, grpErr, ctxDone, tpc, resp, k, tanc, queried, ret, exitCode,
          listAcc, listErr, loads, saves, saveErr, visited, errlog, call, firstRet>>

mainVars == <<pc, projects, i, ancestors, ok, j, ret, exitCode>>
taskVars == <<tpc, resp, k, tanc, queried>>
envVars == <<file, target, loaded, loadErr>>
runVars == <<listAcc, listErr, loads, saves, saveErr, visited, errlog, call, firstRet>>
callVars == <<loads, saves, saveErr, visited, errlog, call, firstRet>>

NoRet == [returned |-> FALSE, isNil |-> TRUE, list |-> <<>>, err |-> FALSE]

\* ------------------------------------------------------------ openCache
\* json.Decoder.Decode into map[string][]string: a syntax error leaves the map
\* untouched; a member of the wrong JSON type is recorded as an
\* UnmarshalTypeError, its key is stored with the zero value, and decoding goes on.
DecodeValue(v) == IF v.t = "array" THEN v.v ELSE <<>>
DecodeMap(f) == IF f.kind = "json" THEN [x \in DOMAIN f.obj |-> DecodeValue(f.obj[x])]
                ELSE EmptyMap
DecodeErr(f) == \/ f.kind # "json"
                \/ \E x \in DOMAIN f.obj : f.obj[x].t # "array"

openCacheMap(f) == IF f.kind = "missing" THEN EmptyMap ELSE DecodeMap(f)
openCacheErr(f) == f.kind = "missing" \/ DecodeErr(f)

Init ==
    /\ file \in Files
    /\ target \in AncestorIds
    /\ pc = "openCache"
    /\ cache = EmptyMap
    /\ loaded = EmptyMap
    /\ loadErr = FALSE
    /\ projects = <<>>
    /\ i = 1
    /\ ancestors = <<>>
    /\ ok = FALSE
    /\ j = 1
    /\ mu = "free"
    /\ filteredProjects = <<>>
    /\ grpErr = FALSE
    /\ ctxDone = FALSE
    /\ tpc = [p \in Projects |-> "idle"]
    /\ resp = EmptyMap
    /\ k = [p \in Projects |-> 1]
    /\ tanc = [p \in Projects |-> <<>>]
    /\ queried = [p \in Projects |-> 0]
    /\ ret = NoRet
    /\ exitCode = -1
    /\ listAcc = <<>>
    /\ listErr = FALSE
    /\ loads = 0
    /\ saves = 0
    /\ saveErr = FALSE
    /\ visited = <<>>
    /\ errlog = {}
    /\ call = 1
    /\ firstRet = NoRet

\* main.go:38  ancestorCache, _ := openCache(cachePath)
OpenCache ==
    /\ pc = "openCache"
    /\ cache' = openCacheMap(file)
    /\ loaded' = openCacheMap(file)
    /\ loadErr' = openCacheErr(file)
    /\ loads' = loads + 1
    /\ pc' = "listProjects"
    /\ UNCHANGED <<file, target, projects, i, ancestors, ok, j, mu, filteredProjects,
                   grpErr, ctxDone, taskVars, ret, exitCode, listAcc, listErr, saves,
                   saveErr, visited, errlog, call, firstRet>>


\* ------------------------------------------------------------ listProjects
\* main.go:178-184: the callback of Pages appends the ids of one more page.
ListPage ==
    /\ pc = "listProjects"
    /\ \E l \in DistinctLists :
          /\ Len(l) > Len(listAcc)
          /\ SubSeq(l, 1, Len(listAcc)) = listAcc
          /\ listAcc' = l
    /\ UNCHANGED <<envVars, callVars, listErr, mainVars, cache, mu, filteredProjects, grpErr,
                   ctxDone, taskVars>>

\* main.go:188, 119-131: no further page; the complete list is returned and the
\* range loop starts.
ListProjectsOk ==
    /\ pc = "listProjects"
    /\ \E l \in DistinctLists :
          /\ l = listAcc
          /\ projects' = l
          /\ pc' = IF Len(l) = 0 THEN "wait" ELSE "lock"
    /\ i' = 1
    /\ UNCHANGED <<envVars, runVars, cache, ancestors, ok, j, mu, filteredProjects, grpErr,
                   ctxDone, taskVars, ret, exitCode>>

\* (mutant) the error of listProjects is ignored and the pages collected so far are used.
ListProjectsErrIgnored ==
    /\ pc = "listProjects"
    /\ listErr' = TRUE
    /\ projects' = listAcc
    /\ pc' = IF Len(listAcc) = 0 THEN "wait" ELSE "lock"
    /\ UNCHANGED <<envVars, callVars, listAcc, cache, i, ancestors, ok, j, mu,
                   filteredProjects, grpErr, ctxDone, taskVars, ret, exitCode>>
\* main.go:185-187, 120-122: a page request fails; listProjects returns nil and
\* the error, and findChildProjects returns nil and that error.
ListProjectsErr ==
    /\ pc = "listProjects"
    /\ listErr' = TRUE
    /\ ret' = [returned |-> TRUE, isNil |-> TRUE, list |-> <<>>, err |-> TRUE]
    /\ pc' = "returned"
    /\ UNCHANGED <<envVars, callVars, listAcc, cache, projects, i, ancestors, ok, j, mu,
                   filteredProjects, grpErr, ctxDone, taskVars, exitCode>>

\* ------------------------------------------------------------- sync.Mutex
\* (mutant) Lock() that never blocks.
MuFreeAlways == TRUE
MuFree == mu = "free"

\* ------------------------------------------------- the range loop, main.go:132-168
\* Position after the body of the loop for projects[idx] has ended.
LoopNext(idx) == IF idx >= Len(projects) THEN "wait" ELSE "lock"

\* v, ok := m[key]
\* (mutant) a lookup that never finds the key.
LookupOkNever(m, key) == FALSE
LookupOk(m, key) == key \in DOMAIN m
LookupVal(m, key) == IF key \in DOMAIN m THEN m[key] ELSE <<>>

\* ancestor == parentResourceID
\* (mutant) the comparison inverted.
IsParentNot(a) == a # target
IsParent(a) == a = target

\* main.go:135
MainLock ==
    /\ pc = "lock"
    /\ MuFree
    /\ mu' = "main"
    /\ pc' = "read"
    /\ UNCHANGED <<envVars, runVars, cache, projects, i, ancestors, ok, j, filteredProjects,
                   grpErr, ctxDone, taskVars, ret, exitCode>>

\* main.go:136
MainRead ==
    /\ pc = "read"
    /\ ancestors' = LookupVal(cache, projects[i])
    /\ ok' = LookupOk(cache, projects[i])
    /\ pc' = "unlock"
    /\ UNCHANGED <<envVars, runVars, cache, projects, i, j, mu, filteredProjects, grpErr,
                   ctxDone, taskVars, ret, exitCode>>

\* main.go:137
MainUnlock ==
    /\ pc = "unlock"
    /\ mu' = "free"
    /\ pc' = "branch"
    /\ UNCHANGED <<envVars, runVars, cache, projects, i, ancestors, ok, j, filteredProjects,
                   grpErr, ctxDone, taskVars, ret, exitCode>>

\* main.go:138-139: cache miss, grp.Go starts the goroutine and the loop goes on.
MainSpawn ==
    /\ pc = "branch"
    /\ ~ok
    /\ tpc' = [tpc EXCEPT ![projects[i]] = "start"]
    /\ pc' = LoopNext(i)
    /\ i' = i + 1
    /\ UNCHANGED <<envVars, runVars, cache, projects, ancestors, ok, j, mu, filteredProjects,
                   grpErr, ctxDone, resp, k, tanc, queried, ret, exitCode>>

\* main.go:159-160: cache hit, enter the inline loop over the cached chain.
MainHit ==
    /\ pc = "branch"
    /\ ok
    /\ j' = 1
    /\ pc' = "hitloop"
    /\ UNCHANGED <<envVars, runVars, cache, projects, i, ancestors, ok, mu, filteredProjects,
                   grpErr, ctxDone, taskVars, ret, exitCode>>

\* main.go:160-161: one iteration of the inline loop, or its end.
MainHitLoop ==
    /\ pc = "hitloop"
    /\ IF j > Len(ancestors)
         THEN /\ pc' = LoopNext(i)
              /\ i' = i + 1
              /\ j' = 1
              /\ ancestors' = <<>>
              /\ ok' = FALSE
         ELSE /\ IF IsParent(ancestors[j])
                   THEN pc' = "hitlock" /\ j' = j
                   ELSE pc' = "hitloop" /\ j' = j + 1
              /\ UNCHANGED <<i, ancestors, ok>>
    /\ UNCHANGED <<envVars, runVars, cache, projects, mu, filteredProjects, grpErr, ctxDone,
                   taskVars, ret, exitCode>>

\* main.go:162
MainHitLock ==
    /\ pc = "hitlock"
    /\ MuFree
    /\ mu' = "main"
    /\ pc' = "hitappend"
    /\ UNCHANGED <<envVars, runVars, cache, projects, i, ancestors, ok, j, filteredProjects,
                   grpErr, ctxDone, taskVars, ret, exitCode>>

\* main.go:163
MainHitAppend ==
    /\ pc = "hitappend"
    /\ filteredProjects' = Append(filteredProjects, projects[i])
    /\ pc' = "hitunlock"
    /\ UNCHANGED <<envVars, runVars, cache, projects, i, ancestors, ok, j, mu, grpErr, ctxDone,
                   taskVars, ret, exitCode>>

\* main.go:164
MainHitUnlock ==
    /\ pc = "hitunlock"
    /\ mu' = "free"
    /\ j' = j + 1
    /\ pc' = "hitloop"
    /\ UNCHANGED <<envVars, runVars, cache, projects, i, ancestors, ok, filteredProjects,
                   grpErr, ctxDone, taskVars, ret, exitCode>>


\* ------------------------------------------- the goroutine of grp.Go, main.go:139-158
\* Do() on a request bound to ctx: a context that is already done makes the
\* call return ctx.Err() before anything is sent.
\* (mutant) a request that is not bound to ctx.
DoNeverRefused == FALSE
DoRefused == ctxDone

\* main.go:140: the call of Do().  The query is sent unless ctx is done.
TaskDo(p) ==
    /\ tpc[p] = "start"
    /\ IF DoRefused
         THEN /\ tpc' = [tpc EXCEPT ![p] = "reterr"]
              /\ UNCHANGED queried
         ELSE /\ tpc' = [tpc EXCEPT ![p] = "inflight"]
              /\ queried' = [queried EXCEPT ![p] = @ + 1]
    /\ UNCHANGED <<envVars, runVars, mainVars, cache, mu, filteredProjects, grpErr, ctxDone,
                   resp, k, tanc>>

\* main.go:140-144: the query answers with a chain (also when ctx was cancelled
\* while it was in flight and the answer won the race).
QueryOk(p) ==
    /\ tpc[p] = "inflight"
    /\ \E c \in Chains : resp' = MapSet(resp, p, c)
    /\ k' = [k EXCEPT ![p] = 1]
    /\ tanc' = [tanc EXCEPT ![p] = <<>>]
    /\ tpc' = [tpc EXCEPT ![p] = "loop"]
    /\ UNCHANGED <<envVars, runVars, mainVars, cache, mu, filteredProjects, grpErr, ctxDone,
                   queried>>

\* main.go:141-143: the query fails (the remote reports an error, or ctx was
\* cancelled while it was in flight).
QueryErr(p) ==
    /\ tpc[p] = "inflight"
    /\ tpc' = [tpc EXCEPT ![p] = "reterr"]
    /\ UNCHANGED <<envVars, runVars, mainVars, cache, mu, filteredProjects, grpErr, ctxDone,
                   resp, k, tanc, queried>>

\* main.go:145-148: one iteration of the loop over resp.Ancestor, or its end.
TaskLoop(p) ==
    /\ tpc[p] = "loop"
    /\ IF k[p] > Len(resp[p])
         THEN /\ tpc' = [tpc EXCEPT ![p] = "wlock"]
              /\ UNCHANGED <<k, tanc>>
         ELSE /\ tanc' = [tanc EXCEPT ![p] = Append(@, resp[p][k[p]])]
              /\ IF IsParent(resp[p][k[p]])
                   THEN tpc' = [tpc EXCEPT ![p] = "applock"] /\ UNCHANGED k
                   ELSE k' = [k EXCEPT ![p] = @ + 1] /\ UNCHANGED tpc
    /\ UNCHANGED <<envVars, runVars, mainVars, cache, mu, filteredProjects, grpErr, ctxDone,
                   resp, queried>>

\* ancestorCache[p] = ancestors
\* (mutant) only the chains that contain the target are cached.
CacheStoreMatchOnly(m, p, anc) == IF target \in Range(anc) THEN MapSet(m, p, anc) ELSE m
\* (mutant) the map is replaced instead of extended.
CacheStoreFresh(m, p, anc) == [x \in {p} |-> anc]
\* (mutant) only the first ancestor is cached.
CacheStoreHead(m, p, anc) == MapSet(m, p, IF anc = <<>> THEN anc ELSE <<anc[1]>>)
CacheStore(m, p, anc) == MapSet(m, p, anc)

\* main.go:149
TaskAppLock(p) ==
    /\ tpc[p] = "applock"
    /\ MuFree
    /\ mu' = p
    /\ tpc' = [tpc EXCEPT ![p] = "append"]
    /\ UNCHANGED <<envVars, runVars, mainVars, cache, filteredProjects, grpErr, ctxDone,
                   resp, k, tanc, queried>>

\* main.go:150
TaskAppend(p) ==
    /\ tpc[p] = "append"
    /\ filteredProjects' = Append(filteredProjects, p)
    /\ tpc' = [tpc EXCEPT ![p] = "appunlock"]
    /\ UNCHANGED <<envVars, runVars, mainVars, cache, mu, grpErr, ctxDone, resp, k, tanc, queried>>

\* (mutant) the Unlock after the append is missing.
TaskAppUnlockMissing(p) ==
    /\ tpc[p] = "appunlock"
    /\ k' = [k EXCEPT ![p] = @ + 1]
    /\ tpc' = [tpc EXCEPT ![p] = "loop"]
    /\ UNCHANGED <<envVars, runVars, mainVars, cache, mu, filteredProjects, grpErr, ctxDone,
                   resp, tanc, queried>>
\* main.go:151
TaskAppUnlock(p) ==
    /\ tpc[p] = "appunlock"
    /\ mu' = "free"
    /\ k' = [k EXCEPT ![p] = @ + 1]
    /\ tpc' = [tpc EXCEPT ![p] = "loop"]
    /\ UNCHANGED <<envVars, runVars, mainVars, cache, filteredProjects, grpErr, ctxDone,
                   resp, tanc, queried>>

\* main.go:154
TaskWLock(p) ==
    /\ tpc[p] = "wlock"
    /\ MuFree
    /\ mu' = p
    /\ tpc' = [tpc EXCEPT ![p] = "write"]
    /\ UNCHANGED <<envVars, runVars, mainVars, cache, filteredProjects, grpErr, ctxDone,
                   resp, k, tanc, queried>>

\* main.go:155
TaskWrite(p) ==
    /\ tpc[p] = "write"
    /\ cache' = CacheStore(cache, p, tanc[p])
    /\ tpc' = [tpc EXCEPT ![p] = "wunlock"]
    /\ UNCHANGED <<envVars, runVars, mainVars, mu, filteredProjects, grpErr, ctxDone,
                   resp, k, tanc, queried>>

\* main.go:156
TaskWUnlock(p) ==
    /\ tpc[p] = "wunlock"
    /\ mu' = "free"
    /\ tpc' = [tpc EXCEPT ![p] = "retnil"]
    /\ UNCHANGED <<envVars, runVars, mainVars, cache, filteredProjects, grpErr, ctxDone,
                   resp, k, tanc, queried>>

\* main.go:157: return nil; the errgroup marks the goroutine as finished.
TaskReturnNil(p) ==
    /\ tpc[p] = "retnil"
    /\ tpc' = [tpc EXCEPT ![p] = "done"]
    /\ UNCHANGED <<envVars, runVars, mainVars, cache, mu, filteredProjects, grpErr, ctxDone,
                   resp, k, tanc, queried>>

\* main.go:142: return the error; the errgroup records the first one, cancels
\* its context and marks the goroutine as finished.
TaskReturnErr(p) ==
    /\ tpc[p] = "reterr"
    /\ grpErr' = TRUE
    /\ ctxDone' = TRUE
    /\ tpc' = [tpc EXCEPT ![p] = "failed"]
    /\ UNCHANGED <<envVars, runVars, mainVars, cache, mu, filteredProjects, resp, k, tanc, queried>>

\* ------------------------------------------------------- grp.Wait, main.go:170-173
\* (mutant) Wait that does not wait.
FinishedAlways(p) == TRUE
Finished(p) == tpc[p] \in {"idle", "done", "failed"}

\* What findChildProjects returns once Wait has returned err.
\* (mutant) the accumulated list is returned along with the error.
WaitResultPartial(err, list) ==
    [returned |-> TRUE, isNil |-> FALSE, list |-> list, err |-> err]
WaitResult(err, list) ==
    IF err THEN [returned |-> TRUE, isNil |-> TRUE, list |-> <<>>, err |-> TRUE]
           ELSE [returned |-> TRUE, isNil |-> FALSE, list |-> list, err |-> FALSE]

Wait ==
    /\ pc = "wait"
    /\ \A p \in Projects : Finished(p)
    /\ ret' = WaitResult(grpErr, filteredProjects)
    /\ ctxDone' = TRUE
    /\ pc' = "returned"
    /\ UNCHANGED <<envVars, runVars, cache, projects, i, ancestors, ok, j, mu, filteredProjects,
                   grpErr, taskVars, exitCode>>

\* ----------------------------------------------------------- main, main.go:39-68
\* main.go:40-43
MainExitErr ==
    /\ pc = "returned"
    /\ ret.err
    /\ errlog' = errlog \cup {"could not find projects"}
    /\ exitCode' = 1
    /\ pc' = "exited"
    /\ UNCHANGED <<envVars, listAcc, listErr, loads, saves, saveErr, visited, call, firstRet,
                   cache, projects, i, ancestors, ok, j, mu, filteredProjects,
                   grpErr, ctxDone, taskVars, ret>>

\* json.Encoder.Encode of the map: every chain becomes an array of strings.
\* (mutant) members with an empty chain are left out.
EncodeMapOmitEmpty(m) ==
    [kind |-> "json", obj |-> [x \in {y \in DOMAIN m : m[y] # <<>>} |-> JsonArray(m[x])]]
EncodeMap(m) == [kind |-> "json", obj |-> [x \in DOMAIN m |-> JsonArray(m[x])]]

\* main.go:44, 204-213: saveCache writes the file.
SaveCacheOk ==
    /\ pc = "returned"
    /\ ~ret.err
    /\ file' = EncodeMap(cache)
    /\ saves' = saves + 1
    /\ saveErr' = FALSE
    /\ pc' = "clusters"
    /\ UNCHANGED <<target, loaded, loadErr, listAcc, listErr, loads, visited, errlog, call,
                   firstRet, cache, projects, i, ancestors, ok, j, mu,
                   filteredProjects, grpErr, ctxDone, taskVars, ret, exitCode>>

\* main.go:44, 205-208: os.Create fails, the file is left as it was; main
\* discards the error.
SaveCacheErr ==
    /\ pc = "returned"
    /\ ~ret.err
    /\ saves' = saves + 1
    /\ saveErr' = TRUE
    /\ pc' = "clusters"
    /\ UNCHANGED <<envVars, listAcc, listErr, loads, visited, errlog, call, firstRet,
                   cache, projects, i, ancestors, ok, j, mu, filteredProjects,
                   grpErr, ctxDone, taskVars, ret, exitCode>>

\* main.go:44, 205-212: os.Create has truncated the file and the write of the
\* encoding fails: the file does not hold a JSON value; main discards the error.
SaveCacheWriteErr ==
    /\ pc = "returned"
    /\ ~ret.err
    /\ file' = [kind |-> "syntax", obj |-> EmptyMap]
    /\ saves' = saves + 1
    /\ saveErr' = TRUE
    /\ pc' = "clusters"
    /\ UNCHANGED <<target, loaded, loadErr, listAcc, listErr, loads, visited, errlog, call,
                   firstRet, cache, projects, i, ancestors, ok, j, mu,
                   filteredProjects, grpErr, ctxDone, taskVars, ret, exitCode>>

\* main.go:46: for _, p := range projects, over what findChildProjects returned.
\* (mutant) the list is dropped when the cache could not be saved.
ClusterListIfSaved == IF saveErr THEN <<>> ELSE ret.list
ClusterList == ret.list

\* main.go:46-67: the clusters of the next project are listed and kubectl has
\* run in each of them.
ClustersVisit ==
    /\ pc = "clusters"
    /\ Len(visited) < Len(ClusterList)
    /\ visited' = Append(visited, ClusterList[Len(visited) + 1])
    /\ UNCHANGED <<envVars, listAcc, listErr, loads, saves, saveErr, errlog, call, firstRet,
                   mainVars, cache, mu, filteredProjects, grpErr, ctxDone, taskVars>>

\* main.go:46-68: the loop over the returned projects ends and main returns.
ClustersOk ==
    /\ pc = "clusters"
    /\ Len(visited) >= Len(ClusterList)
    /\ exitCode' = 0
    /\ pc' = "exited"
    /\ UNCHANGED <<envVars, runVars, cache, projects, i, ancestors, ok, j, mu, filteredProjects,
                   grpErr, ctxDone, taskVars, ret>>

\* main.go:48-51, 55-58, 62-65: the cluster listing, the credentials or kubectl
\* fails for the next project.
ClustersErr ==
    /\ pc = "clusters"
    /\ Len(visited) < Len(ClusterList)
    /\ \E msg \in {"could not list gke clusters", "could not get cluster credentials",
                    "could not run kubectl"} : errlog' = errlog \cup {msg}
    /\ exitCode' = 1
    /\ pc' = "exited"
    /\ UNCHANGED <<envVars, listAcc, listErr, loads, saves, saveErr, visited, call, firstRet,
                   cache, projects, i, ancestors, ok, j, mu, filteredProjects,
                   grpErr, ctxDone, taskVars, ret>>

Next ==
    \/ OpenCache
    \/ ListPage
    \/ ListProjectsOk
    \/ ListProjectsErr
    \/ MainLock
    \/ MainRead
    \/ MainUnlock
    \/ MainSpawn
    \/ MainHit
    \/ MainHitLoop
    \/ MainHitLock
    \/ MainHitAppend
    \/ MainHitUnlock
    \/ \E p \in Projects : TaskDo(p)
    \/ \E p \in Projects : QueryOk(p)
    \/ \E p \in Projects : QueryErr(p)
    \/ \E p \in Projects : TaskLoop(p)
    \/ \E p \in Projects : TaskAppLock(p)
    \/ \E p \in Projects : TaskAppend(p)
    \/ \E p \in Projects : TaskAppUnlock(p)
    \/ \E p \in Projects : TaskWLock(p)
    \/ \E p \in Projects : TaskWrite(p)
    \/ \E p \in Projects : TaskWUnlock(p)
    \/ \E p \in Projects : TaskReturnNil(p)
    \/ \E p \in Projects : TaskReturnErr(p)
    \/ Wait
    \/ MainExitErr
    \/ SaveCacheOk
    \/ SaveCacheErr
    \/ SaveCacheWriteErr
    \/ ClustersVisit
    \/ ClustersOk
    \/ ClustersErr

Spec == Init /\ [][Next]_vars

\* ------------------------------------------------------------------ scheduling
\* The Go scheduler runs some goroutine as long as one can run, and every remote
\* query is eventually answered with a chain or an error.
FairSpec == Spec /\ WF_vars(Next)

\* ------------------------------------------------- a second call, main.go:118-131
\* findChildProjects is called again with the same arguments after it has
\* succeeded, and the lister returns the same list: a new accumulator, mutex,
\* context and errgroup, the same ancestorCache.
SecondCall ==
    /\ pc = "returned"
    /\ ~ret.err
    /\ call = 1
    /\ call' = 2
    /\ firstRet' = ret
    /\ ret' = NoRet
    /\ filteredProjects' = <<>>
    /\ mu' = "free"
    /\ grpErr' = FALSE
    /\ ctxDone' = FALSE
    /\ tpc' = [p \in Projects |-> "idle"]
    /\ i' = 1
    /\ pc' = IF Len(projects) = 0 THEN "wait" ELSE "lock"
    /\ UNCHANGED <<envVars, listAcc, listErr, loads, saves, saveErr, visited, errlog,
                   cache, projects, ancestors, ok, j, resp, k, tanc, queried, exitCode>>

NextTwice == Next \/ SecondCall

SpecTwice == Init /\ [][NextTwice]_vars


\* =================================================================== claims
Listed == Range(projects)
Examined == {projects[n] : n \in 1..(i - 1)}
InScope(c) == target \in Range(c)
Succeeded == ret.returned /\ ~ret.err
\* The chain of a listed project: the loaded one, else the one the remote returned.
ChainOf(p) == IF p \in DOMAIN loaded THEN loaded[p] ELSE resp[p]

\* C1: when findChildProjects succeeds, the set of ids in the returned list is
\* exactly the set of listed projects whose chain (cached at the start, else
\* returned by the remote query) contains the target.
C1_FilteredIsInScope ==
    Succeeded => Range(ret.list) = {p \in Listed : InScope(ChainOf(p))}

\* A successful run over two projects: one cached and matching, one resolved
\* remotely and not matching.
C1_Witness ==
    /\ Succeeded
    /\ \E p, q \in Listed :
          /\ p \in DOMAIN loaded /\ InScope(loaded[p])
          /\ q \notin DOMAIN loaded /\ ~InScope(resp[q])
          /\ Range(ret.list) = {p}

\* C2: if a remote ancestry query failed, findChildProjects returns an error
\* and a nil list, whatever had been accumulated.
C2_ErrorReturnsNoList ==
    (ret.returned /\ \E p \in Projects : tpc[p] = "failed")
        => (ret.err /\ ret.isNil /\ ret.list = <<>>)

\* A failed run that had already accumulated a match.
C2_Witness ==
    /\ ret.returned
    /\ \E p \in Projects : tpc[p] = "failed"
    /\ filteredProjects # <<>>

\* C3: a project with a cached chain is resolved without a remote query and
\* without a goroutine, and is a match iff the target is in the cached chain;
\* queries are sent only for projects without a cached chain.
C3_CacheHitIsLocal ==
    /\ pc = "read" =>
          /\ LookupOk(cache, projects[i]) <=> projects[i] \in DOMAIN loaded
          /\ LookupOk(cache, projects[i]) => cache[projects[i]] = loaded[projects[i]]
    /\ \A p \in DOMAIN loaded :
          /\ queried[p] = 0
          /\ tpc[p] = "idle"
          /\ p \in Examined => (p \in Range(filteredProjects) <=> InScope(loaded[p]))
    /\ \A p \in Projects : queried[p] > 0 => p \notin DOMAIN loaded

\* The cached project was examined and matched while the other one was queried.
C3_Witness ==
    \E p, q \in Listed :
        /\ p \in DOMAIN loaded /\ p \in Examined /\ p \in Range(filteredProjects)
        /\ queried[q] = 1

\* C4: once the goroutine of an uncached project has completed, the cache holds
\* for it exactly the sequence the remote returned (matching or not, empty or
\* not), and the project is in the accumulator iff the target is in that sequence.
C4_MissIsCachedVerbatim ==
    \A p \in Projects :
        tpc[p] \in {"retnil", "done"} =>
            /\ p \in DOMAIN cache
            /\ cache[p] = resp[p]
            /\ p \in Range(filteredProjects) <=> InScope(resp[p])

\* One goroutine cached an empty chain, another a two-element chain whose
\* second element is the target.
C4_Witness ==
    \E p, q \in Projects :
        /\ tpc[p] = "done" /\ cache[p] = <<>>
        /\ tpc[q] = "done" /\ Len(cache[q]) = 2 /\ cache[q][1] # target /\ cache[q][2] = target
        /\ q \in Range(filteredProjects) /\ p \notin Range(filteredProjects)

C6_CacheIntactOnError ==
    (ret.returned /\ ret.err /\ grpErr) =>
        /\ \A p \in DOMAIN loaded : p \in DOMAIN cache /\ cache[p] = loaded[p]
        /\ \A p \in Projects : tpc[p] = "done" => p \in DOMAIN cache /\ cache[p] = resp[p]
        /\ \A p \in DOMAIN cache :
              \/ p \in DOMAIN loaded /\ cache[p] = loaded[p]
              \/ p \in DOMAIN resp /\ cache[p] = resp[p]

\* An error return after one lookup had completed and been cached.
C6_Witness ==
    /\ ret.returned /\ ret.err /\ grpErr
    /\ \E p, q \in Projects : tpc[p] = "done" /\ cache[p] # <<>> /\ tpc[q] = "failed"

\* Who is at a statement that reads or writes the cache or appends to the accumulator.
Accessing ==
    (IF pc \in {"read", "hitappend"} THEN {"main"} ELSE {})
        \cup {p \in Projects : tpc[p] \in {"append", "write"}}

\* C7: at most one of main and the goroutines is at an access to the cache or
\* to the accumulator, and it holds the mutex.
C7_MutualExclusion ==
    /\ Cardinality(Accessing) <= 1
    /\ \A t \in Accessing : mu = t

\* A goroutine writes the cache while main and another goroutine wait for the mutex.
C7_Witness ==
    \E p, q \in Projects :
        /\ p # q
        /\ tpc[p] = "write" /\ mu = p
        /\ tpc[q] \in {"applock", "wlock"}

\* Between the cache-miss check of p and the write of p's chain.
InWindow(p) ==
    \/ pc \in {"unlock", "branch"} /\ ~ok /\ projects[i] = p
    \/ tpc[p] \in {"start", "inflight", "loop", "applock", "append", "appunlock",
                   "wlock", "write"}
CacheAccessBy(t) ==
    IF t = "main" THEN pc = "read" ELSE tpc[t] = "write"

\* C8 as stated: no other task accesses the cache between a project's
\* cache-miss check and the write of its chain.
C8_CheckThenInsertAtomic ==
    \A p \in Projects :
        InWindow(p) => \A t \in (Projects \cup {"main"}) \ {p} : ~CacheAccessBy(t)

\* C8 amended: the check and the write are two critical sections of the same
\* mutex; in between the mutex is released while the query runs, and the
\* project's entry stays absent.
C8_EntryAbsentInWindow ==
    /\ \A p \in Projects :
          /\ InWindow(p) => p \notin DOMAIN cache
          /\ tpc[p] = "write" => mu = p
          /\ tpc[p] \in {"start", "inflight"} => mu # p
    /\ pc = "read" => mu = "main"

\* While a query is in flight for one project, another goroutine writes the cache.
C8_Witness ==
    \E p, q \in Projects :
        /\ p # q
        /\ tpc[p] = "inflight" /\ p \notin DOMAIN cache
        /\ tpc[q] = "write" /\ mu = q

\* C9: once a project has a chain in the cache, no step sends a query for it
\* or changes or removes its entry.
C9_CachedChainImmutable ==
    [][\A p \in DOMAIN cache :
          /\ queried'[p] = queried[p]
          /\ p \in DOMAIN cache'
          /\ cache'[p] = cache[p]]_vars

\* One chain was loaded, one was written by a goroutine, and main goes on.
C9_Witness ==
    \E p, q \in Projects :
        /\ p \in DOMAIN loaded /\ p \in DOMAIN cache
        /\ tpc[q] = "done" /\ q \in DOMAIN cache
        /\ pc = "wait"

\* C10: when the cache file cannot be opened or decoded, openCache yields an
\* empty map and every project is examined as a cache miss.
C10_LoadFailureYieldsEmpty ==
    loadErr => (loaded = EmptyMap /\ (pc = "branch" => ~ok))


\* The messages of the errors saveCache returns (main.go:207, 212).
SaveMessages == {"could not create cache file", "could not encode cache"}
ClusterMessages == {"could not list gke clusters", "could not get cluster credentials",
                    "could not run kubectl"}
IsPrefix(s1, s2) == Len(s1) <= Len(s2) /\ SubSeq(s2, 1, Len(s1)) = s1

\* C11: a failure of saveCache does not end the run and does not change the
\* list: the cluster loop goes through exactly the list findChildProjects
\* returned, whether the save succeeded or failed.
C11_SaveFailureKeepsList ==
    /\ saves = 1 =>
          /\ ret.list = filteredProjects
          /\ IsPrefix(visited, ret.list)
          /\ exitCode = 0 => visited = ret.list
          /\ exitCode = 1 => errlog \cap ClusterMessages # {}
    /\ (saveErr /\ pc = "clusters") => exitCode = -1

\* The save failed and the loop still went through both returned projects.
C11_Witness ==
    /\ saveErr
    /\ exitCode = 0
    /\ Len(ret.list) = 2
    /\ visited = ret.list

\* C12: whenever saveCache fails, a message about the failure is logged.
C12_SaveFailureLogged ==
    (saveErr /\ pc \in {"clusters", "exited"}) => errlog \cap SaveMessages # {}

\* C13: in every run that reaches the resolution phase the cache is loaded
\* exactly once before it and saved exactly once after it, also when the
\* resolution ends with an error.
C13_LoadOncePersistOnce ==
    /\ pc # "openCache" => loads = 1
    /\ saves <= 1
    /\ saves = 1 => ret.returned
    /\ (pc = "exited" /\ ~listErr) => saves = 1

C15_ListFailureStopsEarly ==
    listErr =>
        /\ ret.returned /\ ret.err /\ ret.isNil /\ ret.list = <<>>
        /\ projects = <<>>
        /\ filteredProjects = <<>>
        /\ \A p \in Projects : queried[p] = 0 /\ tpc[p] = "idle"
        /\ cache = loaded

\* The listing failed after a page had been collected, with a loaded cache.
C15_Witness ==
    /\ listErr
    /\ listAcc # <<>>
    /\ loaded # EmptyMap
    /\ pc = "exited"

\* C18: the returned list holds each project id at most once.
C18_NoDuplicates ==
    Succeeded => \A x, y \in DOMAIN ret.list : x # y => ret.list[x] # ret.list[y]

\* C19: once findChildProjects has returned, every goroutine it spawned has
\* ended and none holds the mutex, in particular while saveCache runs.
C19_ReturnAfterAllTasks ==
    ret.returned =>
        /\ \A p \in Projects : tpc[p] \in {"idle", "done", "failed"}
        /\ \A p \in Listed : p \in DOMAIN loaded \/ tpc[p] # "idle"
        /\ mu = "free"

\* The cache has been saved after two goroutines had run.
C19_Witness ==
    /\ saves = 1
    /\ \A p \in Projects : tpc[p] = "done"


\* C16: when the cache holds a chain for every listed project, two calls of
\* findChildProjects with the same list, target and cache send no query, leave
\* the cache as it was and return the same set of ids.
C16_SecondCallSameResult ==
    (call = 2 /\ ret.returned /\ Listed \subseteq DOMAIN loaded) =>
        /\ ~ret.err /\ ~firstRet.err
        /\ Range(ret.list) = Range(firstRet.list)
        /\ \A p \in Projects : queried[p] = 0 /\ tpc[p] = "idle"
        /\ cache = loaded

\* The second call over two cached projects has returned; one of them matches.
C16_Witness ==
    /\ call = 2 /\ ret.returned
    /\ Len(projects) = 2
    /\ Listed \subseteq DOMAIN loaded
    /\ Cardinality(Range(ret.list)) = 1

\* Who is between a Lock and the Unlock that follows it.
InCritical(t) ==
    IF t = "main" THEN pc \in {"read", "unlock", "hitappend", "hitunlock"}
                  ELSE tpc[t] \in {"append", "appunlock", "write", "wunlock"}

\* C20: the mutex is held exactly by who is between a Lock and its Unlock,
\* never by a goroutine whose query is pending, and findChildProjects
\* eventually returns with the mutex released.
C20_Terminates ==
    /\ [](\A t \in Projects \cup {"main"} : mu = t <=> InCritical(t))
    /\ [](\A p \in Projects : tpc[p] \in {"start", "inflight"} => mu # p)
    /\ <>(ret.returned /\ mu = "free")

\* findChildProjects has returned after both goroutines had appended and written
\* under the mutex.
C20_Witness ==
    /\ ret.returned
    /\ \A p \in Projects : tpc[p] = "done" /\ p \in Range(filteredProjects)

====
